---------------------------- MODULE Spec2Model ----------------------------
(***************************************************************************)
(* Model of source/api/grants_gov_api.py: GrantOpportunity and             *)
(* GrantsGovAPIClient.                                                     *)
(*                                                                         *)
(* Representation of Python values:                                        *)
(*   str            a sequence of one-character strings ('' is <<>>)       *)
(*   Optional[str]  None is <<>>, the string s is <<s>>                    *)
(*   list           a sequence                                             *)
(*   dict           a function whose domain is the set of its keys         *)
(* A client performs one call at a time.  A call posts one HTTP request    *)
(* (pc = "Sending"), the server answers, and the rest of the handler runs  *)
(* to its return or raise (pc = "done").                                   *)
(***************************************************************************)
EXTENDS Integers, Sequences, FiniteSets, TLC

VARIABLES pc, call, args, request, requests, response, now, outcome

vars == <<pc, call, args, request, requests, response, now, outcome>>

-----------------------------------------------------------------------------
(* Bounds of the model *)

\* longest hit list a search response carries
MaxHits == 3

\* largest days_back a caller passes
MaxDaysBack == 2

-----------------------------------------------------------------------------
(* Python values *)

None == <<>>

Str(s) == <<s>>

EmptyStr == <<>>

EmptyDict == <<>>

\* bool(v) of an Optional[str]: None and '' are falsy
Truthy(v) == v # None /\ v[1] # EmptyStr

\* dict.get(key, default)
Get(d, key, default) == IF key \in DOMAIN d THEN d[key] ELSE default

-----------------------------------------------------------------------------
(* datetime.strptime(s, '%m/%d/%Y') *)

DigitOf ==
    ("0" :> 0) @@ ("1" :> 1) @@ ("2" :> 2) @@ ("3" :> 3) @@ ("4" :> 4) @@
    ("5" :> 5) @@ ("6" :> 6) @@ ("7" :> 7) @@ ("8" :> 8) @@ ("9" :> 9)

IsDigit(c) == c \in DOMAIN DigitOf

AllDigits(s) == \A i \in 1..Len(s) : IsDigit(s[i])

RECURSIVE ToInt(_)
ToInt(s) ==
    IF s = <<>> THEN 0
    ELSE 10 * ToInt(SubSeq(s, 1, Len(s) - 1)) + DigitOf[s[Len(s)]]

\* the directive %m: 1[0-2]|0[1-9]|[1-9]
MatchesMonth(s) ==
    /\ Len(s) \in {1, 2}
    /\ AllDigits(s)
    /\ ToInt(s) \in 1..12

\* the directive %d: 3[01]|[12]\d|0[1-9]|[1-9]| [1-9]
MatchesDay(s) ==
    \/ /\ Len(s) \in {1, 2}
       /\ AllDigits(s)
       /\ ToInt(s) \in 1..31
    \/ /\ Len(s) = 2
       /\ s[1] = " "
       /\ IsDigit(s[2])
       /\ DigitOf[s[2]] \in 1..9

\* the directive %Y: \d\d\d\d
MatchesYear(s) == Len(s) = 4 /\ AllDigits(s)

DayDigits(s) == IF s[1] = " " THEN SubSeq(s, 2, 2) ELSE s

IsLeap(y) == y % 4 = 0 /\ (y % 100 # 0 \/ y % 400 = 0)

DaysInMonth(y, m) ==
    IF m = 2 THEN (IF IsLeap(y) THEN 29 ELSE 28)
    ELSE IF m \in {4, 6, 9, 11} THEN 30 ELSE 31

RECURSIVE DaysBeforeMonth(_, _)
DaysBeforeMonth(y, m) ==
    IF m = 1 THEN 0 ELSE DaysBeforeMonth(y, m - 1) + DaysInMonth(y, m - 1)

DaysBeforeYear(y) ==
    (y - 1) * 365 + (y - 1) \div 4 - (y - 1) \div 100 + (y - 1) \div 400

\* date.toordinal()
ToOrdinal(y, m, d) == DaysBeforeYear(y) + DaysBeforeMonth(y, m) + d

Slashes(s) == {i \in 1..Len(s) : s[i] = "/"}

\* A datetime is [ord |-> proleptic day number, sec |-> second of the day].
\* strptime returns [ok |-> TRUE, dt |-> datetime] or raises ValueError
\* ([ok |-> FALSE]): the pattern must match the whole string and the fields
\* must name a day of the calendar.
strptime(s) ==
    IF Cardinality(Slashes(s)) # 2 THEN [ok |-> FALSE]
    ELSE
        LET p1 == CHOOSE i \in Slashes(s) : \A j \in Slashes(s) : i <= j
            p2 == CHOOSE i \in Slashes(s) : \A j \in Slashes(s) : j <= i
            ms == SubSeq(s, 1, p1 - 1)
            ds == SubSeq(s, p1 + 1, p2 - 1)
            ys == SubSeq(s, p2 + 1, Len(s))
        IN  IF ~(MatchesMonth(ms) /\ MatchesDay(ds) /\ MatchesYear(ys))
            THEN [ok |-> FALSE]
            ELSE
                LET y == ToInt(ys)
                    m == ToInt(ms)
                    d == ToInt(DayDigits(ds))
                IN  IF y < 1 \/ d > DaysInMonth(y, m)
                    THEN [ok |-> FALSE]
                    ELSE [ok |-> TRUE,
                          dt |-> [ord |-> ToOrdinal(y, m, d), sec |-> 0]]

\* datetime - timedelta(days=n)
MinusDays(dt, n) == [ord |-> dt.ord - n, sec |-> dt.sec]

\* a comparison that drops the records opened exactly at the cutoff
DateGT(a, b) == a.ord > b.ord \/ (a.ord = b.ord /\ a.sec > b.sec)

\* datetime >= datetime
DateGE(a, b) == a.ord > b.ord \/ (a.ord = b.ord /\ a.sec >= b.sec)

-----------------------------------------------------------------------------
(* GrantOpportunity *)

\* the dataclass fields and the JSON key each is read from
FieldKey ==
    [id |-> "id", number |-> "number", title |-> "title",
     agency_code |-> "agencyCode", agency_name |-> "agencyName",
     open_date |-> "openDate", close_date |-> "closeDate",
     opp_status |-> "oppStatus", doc_type |-> "docType",
     aln_list |-> "alnist"]

from_api_response(data) ==
    [id          |-> Get(data, "id", EmptyStr),
     number      |-> Get(data, "number", EmptyStr),
     title       |-> Get(data, "title", EmptyStr),
     agency_code |-> Get(data, "agencyCode", EmptyStr),
     agency_name |-> Get(data, "agencyName", EmptyStr),
     open_date   |-> Get(data, "openDate", EmptyStr),
     close_date  |-> Get(data, "closeDate", EmptyStr),
     opp_status  |-> Get(data, "oppStatus", EmptyStr),
     doc_type    |-> Get(data, "docType", EmptyStr),
     aln_list    |-> Get(data, "alnist", <<>>)]

-----------------------------------------------------------------------------
(* search_opportunities: parameters and payload *)

DefaultStatuses == <<"f", "o", "r", "e", "c", "a", "s", "t", "e", "d", "|", "p", "o", "s", "t", "e", "d">>

DefaultRows == 25

DefaultStart == 0

NewRows == 100

\* the signature's defaults
Defaults ==
    [keyword |-> None, opp_num |-> None, agencies |-> None,
     opp_statuses |-> Str(DefaultStatuses), eligibilities |-> None,
     funding_categories |-> None, aln |-> None, rows |-> DefaultRows,
     start_record_num |-> DefaultStart, sort_by |-> None]

ParamNames == DOMAIN Defaults

\* the optional parameters and the payload key of each
PayloadKey ==
    [keyword |-> "keyword", opp_num |-> "oppNum", agencies |-> "agencies",
     opp_statuses |-> "oppStatuses", eligibilities |-> "eligibilities",
     funding_categories |-> "fundingCategories", aln |-> "aln",
     sort_by |-> "sortBy"]

OptionalParams == DOMAIN PayloadKey

\* binding of keyword arguments to the parameters
Bind(kwargs) ==
    [p \in ParamNames |-> IF p \in DOMAIN kwargs THEN kwargs[p] ELSE Defaults[p]]

\* one `if param: payload[key] = param`
Entry(a, p) == IF Truthy(a[p]) THEN PayloadKey[p] :> a[p][1] ELSE EmptyDict

BuildPayload(a) ==
    [rows |-> a.rows, startRecordNum |-> a.start_record_num]
        @@ Entry(a, "keyword") @@ Entry(a, "opp_num") @@ Entry(a, "agencies")
        @@ Entry(a, "opp_statuses") @@ Entry(a, "eligibilities")
        @@ Entry(a, "funding_categories") @@ Entry(a, "aln")
        @@ Entry(a, "sort_by")

-----------------------------------------------------------------------------
(* Outcomes of a call *)

Pending == [kind |-> "none", exc |-> "", status |-> 0, message |-> <<>>, value |-> <<>>]

Return(v) == [kind |-> "return", exc |-> "", status |-> 0, message |-> <<>>, value |-> v]

Raise(e, st, m) == [kind |-> "raise", exc |-> e, status |-> st, message |-> m, value |-> <<>>]

\* f"API Error: {data.get('msg')}"
ApiErrorMessage(data) ==
    <<"A", "P", "I", " ", "E", "r", "r", "o", "r", ":", " ">> \o (IF "msg" \in DOMAIN data THEN data["msg"] ELSE <<"N", "o", "n", "e">>)

\* a search that returns the body without looking at its errorcode
search_opportunities_unchecked(resp) ==
    IF resp.transport THEN Raise("ConnectionError", 0, <<>>)
    ELSE IF resp.status >= 400 /\ resp.status < 600
         THEN Raise("HTTPError", resp.status, <<>>)
    ELSE IF ~resp.body.json THEN Raise("JSONDecodeError", 0, <<>>)
    ELSE IF "data" \notin DOMAIN resp.body.obj
            \/ "hitCount" \notin DOMAIN resp.body.obj["data"]
         THEN Raise("KeyError", 0, <<>>)
         ELSE Return(resp.body.obj)

\* the try block of search_opportunities, from the reply to session.post on
search_opportunities(resp) ==
    IF resp.transport THEN Raise("ConnectionError", 0, <<>>)
    ELSE IF resp.status >= 400 /\ resp.status < 600
         THEN Raise("HTTPError", resp.status, <<>>)
    ELSE IF ~resp.body.json THEN Raise("JSONDecodeError", 0, <<>>)
    ELSE LET data == resp.body.obj
         IN  IF Get(data, "errorcode", 0) # 0
             THEN Raise("Exception", 0, ApiErrorMessage(data))
             ELSE IF "data" \notin DOMAIN data \/ "hitCount" \notin DOMAIN data["data"]
                  THEN Raise("KeyError", 0, <<>>)
                  ELSE Return(data)

\* a loop that skips the hits that carry no id
ParseHitsWithId(hits) ==
    LET withId == SelectSeq(hits, LAMBDA h : "id" \in DOMAIN h)
    IN  [i \in 1..Len(withId) |-> from_api_response(withId[i])]

\* the loop of get_opportunities over response['data'].get('oppHits', [])
ParseHits(hits) == [i \in 1..Len(hits) |-> from_api_response(hits[i])]

get_opportunities(resp) ==
    LET r == search_opportunities(resp)
    IN  IF r.kind = "raise" THEN r
        ELSE Return(ParseHits(Get(r.value["data"], "oppHits", <<>>)))

\* one pass of the filter loop: is opp appended to new_opps?
Appended(opp, cutoff_date) ==
    IF opp.open_date # EmptyStr
    THEN LET parsed == strptime(opp.open_date)
         IN  IF parsed.ok THEN DateGE(parsed.dt, cutoff_date)
             ELSE TRUE
    ELSE FALSE

\* a filter that puts each kept record in front of the ones kept before it
RECURSIVE new_opps_reversed(_, _)
new_opps_reversed(all_opps, cutoff_date) ==
    IF all_opps = <<>> THEN <<>>
    ELSE IF Appended(Head(all_opps), cutoff_date)
         THEN new_opps_reversed(Tail(all_opps), cutoff_date) \o <<Head(all_opps)>>
         ELSE new_opps_reversed(Tail(all_opps), cutoff_date)

RECURSIVE new_opps(_, _)
new_opps(all_opps, cutoff_date) ==
    IF all_opps = <<>> THEN <<>>
    ELSE IF Appended(Head(all_opps), cutoff_date)
         THEN <<Head(all_opps)>> \o new_opps(Tail(all_opps), cutoff_date)
         ELSE new_opps(Tail(all_opps), cutoff_date)

get_new_opportunities(days_back, resp, t) ==
    LET r == get_opportunities(resp)
    IN  IF r.kind = "raise" THEN r
        ELSE Return(new_opps(r.value, MinusDays(t, days_back)))

fetch_opportunity_detail(resp) ==
    IF resp.transport THEN Raise("ConnectionError", 0, <<>>)
    ELSE IF resp.status >= 400 /\ resp.status < 600
         THEN Raise("HTTPError", resp.status, <<>>)
    ELSE IF ~resp.body.json THEN Raise("JSONDecodeError", 0, <<>>)
    ELSE Return(resp.body.obj)

\* a handler that posts the request again after a server error
ResendOnServerError(resp) == ~resp.transport /\ resp.status >= 500

\* does the handler post the request again after this reply?  Every path of
\* both try blocks returns or raises.
Resend(resp) == FALSE

-----------------------------------------------------------------------------
(* Inputs: what callers pass and what the server and the clock answer *)

KeywordChoices == {EmptyDict, "keyword" :> Str(EmptyStr), "keyword" :> Str(<<"h">>)}

StatusChoices ==
    {EmptyDict, "opp_statuses" :> None, "opp_statuses" :> Str(EmptyStr),
     "opp_statuses" :> Str(<<"p">>)}

OtherKwargs ==
    {EmptyDict,
     "rows" :> 5,
     "agencies" :> Str(EmptyStr),
     ("aln" :> Str(<<"9">>)) @@ ("start_record_num" :> 10),
     ("opp_num" :> Str(<<"A">>)) @@ ("sort_by" :> Str(EmptyStr)),
     ("eligibilities" :> Str(<<"e">>)) @@ ("funding_categories" :> Str(<<"H">>))}

\* keyword arguments of search_opportunities and of get_opportunities
SearchKwargs ==
    {k1 @@ k2 @@ k3 : k1 \in KeywordChoices, k2 \in StatusChoices, k3 \in OtherKwargs}

\* **kwargs of get_new_opportunities
NewKwargs == {EmptyDict, "rows" :> 5, "keyword" :> Str(<<"h">>), "aln" :> Str(EmptyStr)}

NewStatuses == {DefaultStatuses, EmptyStr}

DaysBack == 0..MaxDaysBack

OppIds == {<<"7">>, EmptyStr}

Hit(d) ==
    [id |-> <<"7">>, number |-> <<"N">>, title |-> <<"T">>,
     agencyCode |-> <<"A">>, agencyName |-> <<"G">>, openDate |-> d,
     closeDate |-> EmptyStr, oppStatus |-> <<"p">>, docType |-> <<"s">>,
     alnist |-> << <<"9">> >>]

\* open dates: the last of February, ten days before the first of March,
\* a day that is not in the calendar, another format, and the empty string
OpenDates ==
    {<<"0", "2", "/", "2", "9", "/", "2", "0", "2", "4">>,
     <<"0", "2", "/", "2", "0", "/", "2", "0", "2", "4">>,
     <<"0", "2", "/", "3", "0", "/", "2", "0", "2", "4">>,
     <<"2", "0", "2", "4", "-", "0", "3", "-", "0", "1">>,
     EmptyStr}

HitObjects ==
    {Hit(d) : d \in OpenDates} \cup {EmptyDict, [id |-> <<"8">>, title |-> <<"U">>]}

HitLists == UNION {[1..n -> HitObjects] : n \in 0..MaxHits}

\* datetime.now(): midnight or noon of the first or second of March 2024
Nows == {[ord |-> ToOrdinal(2024, 3, d), sec |-> s] : d \in {1, 2}, s \in {0, 43200}}

NoBody == [json |-> FALSE, obj |-> EmptyDict]

Json(o) == [json |-> TRUE, obj |-> o]

NoResponse == [transport |-> FALSE, status |-> 0, retry_after |-> None, body |-> NoBody]

TransportFailure == [transport |-> TRUE, status |-> 0, retry_after |-> None, body |-> NoBody]

Http(st, ra, b) == [transport |-> FALSE, status |-> st, retry_after |-> ra, body |-> b]

ErrorBody == Json([errorcode |-> 1, msg |-> <<"q">>])

FailureResponses ==
    {TransportFailure}
        \cup {Http(st, None, ErrorBody) : st \in {401, 404, 500}}
        \cup {Http(429, ra, NoBody) : ra \in {None, Str(<<"2">>), Str(<<"x">>)}}
        \cup {Http(200, None, NoBody)}

SearchBodies ==
    {Json([errorcode |-> 0, msg |-> EmptyStr,
           data |-> [hitCount |-> Len(h), oppHits |-> h]]) : h \in HitLists}
        \cup {ErrorBody,
              Json([errorcode |-> 2]),
              Json([errorcode |-> 0, msg |-> EmptyStr]),
              Json([errorcode |-> 0, data |-> [oppHits |-> <<>>]]),
              Json([data |-> [hitCount |-> 0]])}

SearchResponses == FailureResponses \cup {Http(200, None, b) : b \in SearchBodies}

DetailResponses ==
    FailureResponses
        \cup {Http(200, None, Json(Hit(EmptyStr))), Http(200, None, ErrorBody)}

-----------------------------------------------------------------------------
(* The client *)

NoCall == [op |-> "", days_back |-> 0]

NoRequest == [endpoint |-> "", json |-> EmptyDict]

NoArgs == EmptyDict

NoTime == [ord |-> 0, sec |-> 0]

Init ==
    /\ pc = "idle"
    /\ call = NoCall
    /\ args = NoArgs
    /\ request = NoRequest
    /\ requests = 0
    /\ response = NoResponse
    /\ now = NoTime
    /\ outcome = Pending

\* session.post(endpoint, json=payload) of search_opportunities
PostSearch(op, days_back, a) ==
    /\ pc' = "Sending"
    /\ call' = [op |-> op, days_back |-> days_back]
    /\ args' = a
    /\ request' = [endpoint |-> "search2", json |-> BuildPayload(a)]
    /\ requests' = 1
    /\ UNCHANGED <<response, now, outcome>>

CallSearchOpportunities(kwargs) ==
    /\ pc = "idle"
    /\ PostSearch("search_opportunities", 0, Bind(kwargs))

CallGetOpportunities(kwargs) ==
    /\ pc = "idle"
    /\ PostSearch("get_opportunities", 0, Bind(kwargs))

\* get_opportunities(opp_statuses=opp_statuses, rows=100, **kwargs): a rows
\* among the kwargs is a repeated keyword argument, a TypeError
CallGetNewOpportunities(days_back, opp_statuses, kwargs) ==
    /\ pc = "idle"
    /\ IF "rows" \in DOMAIN kwargs
       THEN /\ pc' = "done"
            /\ call' = [op |-> "get_new_opportunities", days_back |-> days_back]
            /\ outcome' = Raise("TypeError", 0, <<>>)
            /\ UNCHANGED <<args, request, requests, response, now>>
       ELSE PostSearch("get_new_opportunities", days_back,
                Bind(("opp_statuses" :> Str(opp_statuses)) @@ ("rows" :> NewRows) @@ kwargs))

CallFetchOpportunityDetail(opp_id) ==
    /\ pc = "idle"
    /\ pc' = "Sending"
    /\ call' = [op |-> "fetch_opportunity_detail", days_back |-> 0]
    /\ args' = [opp_id |-> opp_id]
    /\ request' = [endpoint |-> "fetchOpportunity", json |-> [oppId |-> opp_id]]
    /\ requests' = 1
    /\ UNCHANGED <<response, now, outcome>>

\* the reply arrives and the handler runs to its end; the request and the
\* frame of the handler are gone when it ends
Finish(resp, t, result) ==
    /\ response' = resp
    /\ IF Resend(resp)
       THEN /\ pc' = "Sending"
            /\ requests' = requests + 1
            /\ UNCHANGED <<call, args, request, now, outcome>>
       ELSE /\ pc' = "done"
            /\ outcome' = result
            /\ now' = t
            /\ args' = NoArgs
            /\ request' = NoRequest
            /\ UNCHANGED <<call, requests>>

SearchOpportunitiesEnds(resp) ==
    /\ pc = "Sending"
    /\ call.op = "search_opportunities"
    /\ Finish(resp, NoTime, search_opportunities(resp))

GetOpportunitiesEnds(resp) ==
    /\ pc = "Sending"
    /\ call.op = "get_opportunities"
    /\ Finish(resp, NoTime, get_opportunities(resp))

\* datetime.now() is read once get_opportunities has returned
GetNewOpportunitiesEnds(resp, t) ==
    /\ pc = "Sending"
    /\ call.op = "get_new_opportunities"
    /\ IF get_opportunities(resp).kind = "raise"
       THEN Finish(resp, NoTime, get_opportunities(resp))
       ELSE Finish(resp, t, get_new_opportunities(call.days_back, resp, t))

FetchOpportunityDetailEnds(resp) ==
    /\ pc = "Sending"
    /\ call.op = "fetch_opportunity_detail"
    /\ Finish(resp, NoTime, fetch_opportunity_detail(resp))

\* the caller takes the result; the client is ready for the next call
NextCall ==
    /\ pc = "done"
    /\ pc' = "idle"
    /\ call' = NoCall
    /\ args' = NoArgs
    /\ request' = NoRequest
    /\ requests' = 0
    /\ response' = NoResponse
    /\ now' = NoTime
    /\ outcome' = Pending

Next ==
    \/ \E kwargs \in SearchKwargs : CallSearchOpportunities(kwargs)
    \/ \E kwargs \in SearchKwargs : CallGetOpportunities(kwargs)
    \/ \E d \in DaysBack, st \in NewStatuses, kwargs \in NewKwargs :
          CallGetNewOpportunities(d, st, kwargs)
    \/ \E opp_id \in OppIds : CallFetchOpportunityDetail(opp_id)
    \/ \E resp \in SearchResponses : SearchOpportunitiesEnds(resp)
    \/ \E resp \in SearchResponses : GetOpportunitiesEnds(resp)
    \/ \E resp \in SearchResponses, t \in Nows : GetNewOpportunitiesEnds(resp, t)
    \/ \E resp \in DetailResponses : FetchOpportunityDetailEnds(resp)
    \/ NextCall

Spec == Init /\ [][Next]_vars

-----------------------------------------------------------------------------
(* Properties *)

Ended(op) == pc = "done" /\ call.op = op

SearchOps == {"search_opportunities", "get_opportunities", "get_new_opportunities"}

\* the reply is a 2xx JSON body without an error code, with data and hitCount
Successful(resp) ==
    /\ ~resp.transport
    /\ resp.status = 200
    /\ resp.body.json
    /\ Get(resp.body.obj, "errorcode", 0) = 0
    /\ "data" \in DOMAIN resp.body.obj
    /\ "hitCount" \in DOMAIN resp.body.obj["data"]

\* the hit list of a successful reply
HitsOf(resp) == Get(resp.body.obj["data"], "oppHits", <<>>)

\* a Retry-After header that is a number
Numeric(ra) == ra # None /\ ra[1] # EmptyStr /\ AllDigits(ra[1])

RECURSIVE IsSubsequence(_, _)
IsSubsequence(s, t) ==
    IF s = <<>> THEN TRUE
    ELSE IF t = <<>> THEN FALSE
    ELSE IF Head(s) = Head(t) THEN IsSubsequence(Tail(s), Tail(t))
    ELSE IsSubsequence(s, Tail(t))

\* C1: after a 429 reply with a numeric Retry-After the executor issues the
\* same request again (it is sending, for at least the second time) instead
\* of ending the call with an error.
C1_ReissuesAfter429 ==
    (response.status = 429 /\ Numeric(response.retry_after))
        => (pc = "Sending" /\ requests >= 2)

\* C2: a 429 reply that is not retried ends the call with a RateLimitError,
\* an error kind of its own and not the generic HTTP error, after a single
\* request.
C2_RateLimitError ==
    (pc = "done" /\ response.status = 429)
        => /\ outcome.kind = "raise"
           /\ outcome.exc = "RateLimitError"
           /\ outcome.exc # search_opportunities(Http(500, None, NoBody)).exc
           /\ requests = 1

\* C3: the payload of a search holds rows and startRecordNum, and the key of
\* an optional parameter exactly when the parameter is set (is not None).
C3_PayloadKeys ==
    (pc = "Sending" /\ request.endpoint = "search2")
        => /\ DOMAIN request.json \subseteq
                 {"rows", "startRecordNum"} \cup {PayloadKey[p] : p \in OptionalParams}
           /\ {"rows", "startRecordNum"} \subseteq DOMAIN request.json
           /\ \A p \in OptionalParams :
                 PayloadKey[p] \in DOMAIN request.json <=> args[p] # None

\* C4: an optional parameter passed as the empty string is in the payload,
\* with the empty string as its value.
C4_EmptyStringKept ==
    (pc = "Sending" /\ request.endpoint = "search2")
        => \A p \in OptionalParams :
              args[p] = Str(EmptyStr)
                  => /\ PayloadKey[p] \in DOMAIN request.json
                     /\ request.json[PayloadKey[p]] = EmptyStr

\* the records get_new_opportunities filters, and their kinds in C5
Fetched == ParseHits(HitsOf(response))

Parses(opp) == opp.open_date # EmptyStr /\ strptime(opp.open_date).ok

Malformed(opp) == opp.open_date # EmptyStr /\ ~strptime(opp.open_date).ok

OpenedDaysAgo(opp, n) == Parses(opp) /\ strptime(opp.open_date).dt.ord = now.ord - n

\* days_back = 1 and the hits are, in some order, a record opened the day
\* before, one opened ten days before and one with a malformed date
MixedRecords ==
    /\ Ended("get_new_opportunities")
    /\ outcome.kind = "return"
    /\ call.days_back = 1
    /\ Len(Fetched) = 3
    /\ \E i, j, k \in 1..3 :
          /\ {i, j, k} = 1..3
          /\ OpenedDaysAgo(Fetched[i], 1)
          /\ OpenedDaysAgo(Fetched[j], 10)
          /\ Malformed(Fetched[k])

\* seconds between the start of a record's open date and the cutoff
SecondsAfterCutoff(opp) ==
    (strptime(opp.open_date).dt.ord - (now.ord - call.days_back)) * 86400 - now.sec

SecondsRule ==
    (Ended("get_new_opportunities") /\ outcome.kind = "return")
        => \A i \in 1..Len(Fetched) :
              Parses(Fetched[i])
                  => ((\E j \in 1..Len(outcome.value) : outcome.value[j] = Fetched[i])
                          <=> SecondsAfterCutoff(Fetched[i]) >= 0)

C6_UnparsedKept ==
    (Ended("get_new_opportunities") /\ outcome.kind = "return")
        => \A i \in 1..Len(Fetched) :
              ~Parses(Fetched[i])
                  => \E j \in 1..Len(outcome.value) : outcome.value[j] = Fetched[i]

\* C7: get_opportunities returns, for a successful reply, one record per hit
\* in the order of the hits; each field holds the hit's value, or the empty
\* string (the empty list) where the hit has no such key.
C7_CountAndOrder ==
    (Ended("get_opportunities") /\ Successful(response))
        => /\ outcome.kind = "return"
           /\ Len(outcome.value) = Len(HitsOf(response))
           /\ \A i \in 1..Len(HitsOf(response)) :
                 \A f \in DOMAIN FieldKey :
                    outcome.value[i][f] =
                        IF FieldKey[f] \in DOMAIN HitsOf(response)[i]
                        THEN HitsOf(response)[i][FieldKey[f]]
                        ELSE <<>>

C7_Witness ==
    /\ Ended("get_opportunities")
    /\ Successful(response)
    /\ Len(outcome.value) = 3
    /\ HitsOf(response)[1] = EmptyDict
    /\ DOMAIN HitsOf(response)[2] = {"id", "title"}
    /\ "openDate" \in DOMAIN HitsOf(response)[3]

\* the reply is a 2xx JSON body with a non-zero errorcode
ApplicationError(resp) ==
    /\ ~resp.transport
    /\ resp.status = 200
    /\ resp.body.json
    /\ Get(resp.body.obj, "errorcode", 0) # 0

EndsWith(s, suffix) ==
    /\ Len(s) >= Len(suffix)
    /\ SubSeq(s, Len(s) - Len(suffix) + 1, Len(s)) = suffix

\* C8: a reply with a non-zero errorcode ends search_opportunities,
\* get_opportunities and get_new_opportunities alike with the error that
\* carries the server's message, with no data and after a single request.
C8_ApplicationError ==
    (pc = "done" /\ call.op \in SearchOps /\ ApplicationError(response))
        => /\ outcome.kind = "raise"
           /\ outcome.exc = "Exception"
           /\ outcome.value = <<>>
           /\ requests = 1
           /\ "msg" \in DOMAIN response.body.obj
                 => EndsWith(outcome.message, response.body.obj["msg"])

C8_Witness ==
    /\ Ended("get_new_opportunities")
    /\ ApplicationError(response)
    /\ "msg" \in DOMAIN response.body.obj
    /\ outcome.kind = "raise"

\* C9: a call is sending again after a reply only if the reply was a 429;
\* after any other reply the call has ended, with a result or an error, and
\* has issued that one request.
C9_OnlyA429Resends ==
    /\ (pc = "Sending" /\ response # NoResponse) => response.status = 429
    /\ (response # NoResponse /\ response.status # 429)
          => /\ pc = "done"
             /\ outcome.kind \in {"return", "raise"}
             /\ requests = 1

C9_Witness ==
    /\ pc = "done"
    /\ response.status = 401
    /\ outcome.kind = "raise"
    /\ requests = 1

\* C10: get_new_opportunities issues one search, with rows = 100, and its
\* result is a subsequence of the records of that search's hit list.
C10_Subsequence ==
    /\ (pc = "Sending" /\ call.op = "get_new_opportunities")
          => (request.json["rows"] = 100 /\ requests = 1)
    /\ (Ended("get_new_opportunities") /\ outcome.kind = "return")
          => (requests = 1 /\ IsSubsequence(outcome.value, Fetched))

C10_Witness ==
    /\ Ended("get_new_opportunities")
    /\ outcome.kind = "return"
    /\ Len(Fetched) = 3
    /\ Fetched[1] # Fetched[3]
    /\ outcome.value = <<Fetched[1], Fetched[3]>>

=============================================================================
